---- MODULE Spec2Model ----
(***************************************************************************)
(* EllipsoidModel (src/sources/osg/EllipsoidModel.js) as a state machine.  *)
(*                                                                         *)
(* JavaScript numbers are modelled by exact extended rationals: a number   *)
(* is a triple <<s, n, d>> of a sign, a numerator and a denominator in     *)
(* lowest terms; an empty d holds the non-finite values (Infinity = 1/0,   *)
(* -Infinity = -1/0, NaN = 0/0).  Numerators and denominators are          *)
(* arbitrary-precision naturals (little-endian limbs), since 6356752.3142  *)
(* and the coefficient derived from it do not fit a machine integer. An    *)
(* angle is modelled by                                                    *)
(* the point <<cos, sin>> it names on the unit circle, so Math.sin and     *)
(* Math.cos are projections and Math.atan / Math.atan2 normalise a         *)
(* direction; the angles of the model are those with rational sine and     *)
(* cosine.  Rounding is not modelled: every operation is the real-number   *)
(* operation the IEEE one approximates.                                    *)
(*                                                                         *)
(* The arithmetic is one family of mutually recursive operators: a use     *)
(* NatAdd(a, b) stands for Evaluate("NatAdd", <<a, b>>), and Evaluate      *)
(* applies the definition, NatAddBody(a, b).                               *)
(***************************************************************************)
EXTENDS Integers, Sequences, FiniteSets, Bags, TLC

(***************************************************************************)
(* Arbitrary-precision naturals: little-endian sequences of limbs, no      *)
(* high zero limb, zero = << >>.                                           *)
(***************************************************************************)
Base == 100 * 100

\* the values of the variables are computed first to last, and then the result
InOrder(variables, result) == IF variables = << >> THEN result ELSE result

\* Body of the value v, v computed once and first
Let(v, Body(_)) == InOrder(<<v>>, Body(v))

\* the sequence Op(1), ..., Op(n)
SeqOf(n, Op(_)) == SubSeq([i \in 1..n |-> Op(i)], 1, n)

\* the sum of Op(i) >= 0 over the i of the finite set S
Sum(S, Op(_)) == IF S = {} THEN 0 ELSE BagCardinality([i \in S |-> Op(i) + 1]) - Cardinality(S)

\* the least k with 2^k >= n
Bits(n) == CHOOSE k \in 0..30 : 2^k >= n /\ (k = 0 \/ 2^(k - 1) < n)

\* F applied until Done, at most 2^k times
RECURSIVE Iterate(_, _, _, _)
Iterate(F(_), Done(_), p, k) ==
  IF Done(p) THEN p
  ELSE IF k = 0 THEN F(p)
  ELSE Iterate(F, Done, Iterate(F, Done, p, k - 1), k - 1)

Limb(a, i) == IF i <= Len(a) THEN a[i] ELSE 0

\* the natural of a machine integer k >= 0
NatOfInt(k) ==
  IF k < Base THEN (IF k = 0 THEN << >> ELSE <<k>>)
  ELSE IF k < Base * Base THEN <<k % Base, k \div Base>>
  ELSE <<k % Base, (k \div Base) % Base, k \div (Base * Base)>>

\* the value of a natural of at most two limbs
NatToInt(a) == Limb(a, 1) + Base * Limb(a, 2)

\* a * Base^k
Shift(a, k) == IF a = << >> THEN a ELSE SeqOf(k, LAMBDA i : 0) \o a

\* the most limbs of a factor whose column sums fit a machine integer
MaxColumn == 2147483647 \div (Base * Base)

\* the last limbs of the squares
SquareEnds == {(k * k) % Base : k \in 0..(Base - 1)}

(***************************************************************************)
(* Numbers: <<s, n, d>> is s * n / d in lowest terms, s the sign.  d = 0   *)
(* (<< >>) holds Infinity (s = 1), -Infinity (s = -1) and NaN (s = 0).     *)
(* Irrational is the one value that is not a number of the program: the    *)
(* result of a square root (or of an angle) that no rational equals.  It   *)
(* is absorbing, and the actions take no input that produces it.           *)
(***************************************************************************)
One == <<1>>
Zero == <<0, << >>, One>>
NaN == <<0, << >>, << >> >>
Infinity == <<1, One, << >> >>
NegInfinity == <<-1, One, << >> >>
Irrational == <<2, << >>, << >> >>

IsNaN(a) == a = NaN
IsFinite(a) == a[3] # << >>
IsZero(a) == a[1] = 0 /\ IsFinite(a)

\* the number of a machine integer
Num(k) ==
  IF k = 0 THEN Zero ELSE <<IF k < 0 THEN -1 ELSE 1, NatOfInt(IF k < 0 THEN -k ELSE k), One>>

\* unary -
Neg(a) == IF a = Irrational THEN a ELSE <<-a[1], a[2], a[3]>>

\* 1 / a: 1 / 0 is Infinity (the zeros of the model are positive)
Recip(a) ==
  IF a = Irrational THEN a
  ELSE IF IsNaN(a) THEN NaN
  ELSE IF ~IsFinite(a) THEN Zero
  ELSE IF a[1] = 0 THEN Infinity
  ELSE <<a[1], a[3], a[2]>>

(***************************************************************************)
(* Angles: the point <<cos, sin>> of the unit circle.                      *)
(***************************************************************************)
Angle(c, s) == <<c, s>>
NaNAngle == <<NaN, NaN>>
IrrationalAngle == <<Irrational, Irrational>>

\* Math.cos, Math.sin
Cos(a) == a[1]
Sin(a) == a[2]

(***************************************************************************)
(* The collaborators osg/Vec3, osg/Matrix and osg/Notify.  A container is  *)
(* the sequence of its entries, entry i of the array at index i + 1; no    *)
(* container (an omitted argument, undefined) is << >>.                    *)
(***************************************************************************)
Undefined == << >>

\* Vec3.create()
Vec3Create == <<Zero, Zero, Zero>>

\* Matrix.create(): the 4x4 identity, row-major
MatrixCreate ==
  <<Num(1), Zero, Zero, Zero,
    Zero, Num(1), Zero, Zero,
    Zero, Zero, Num(1), Zero,
    Zero, Zero, Zero, Num(1)>>

\* Matrix.makeTranslate(x, y, z, matrix)
MatrixMakeTranslate(x, y, z, matrix) ==
  SubSeq(MatrixCreate, 1, 12) \o <<x, y, z, Num(1)>>

\* Matrix.set(matrix, row, col, value)
MatrixSet(matrix, row, col, value) == [matrix EXCEPT ![row * 4 + col + 1] = value]

\* result[0], result[1], result[2] = x, y, z
Store3(result, x, y, z) == <<x, y, z>> \o SubSeq(result, 4, Len(result))

(***************************************************************************)
(* The operations: each use is an application of Evaluate.                 *)
(***************************************************************************)
RECURSIVE Evaluate(_, _)

Trim(a) == Evaluate("Trim", <<a>>)
NatAdd(a, b) == Evaluate("NatAdd", <<a, b>>)
NatCmp(a, b) == Evaluate("NatCmp", <<a, b>>)
NatSub(a, b) == Evaluate("NatSub", <<a, b>>)
MulLimb(a, k) == Evaluate("MulLimb", <<a, k>>)
NatMul(a, b) == Evaluate("NatMul", <<a, b>>)
DivideStep(a, b, p) == Evaluate("DivideStep", <<a, b, p>>)
LongDivide(a, b) == Evaluate("LongDivide", <<a, b>>)
NatDivMod(a, b) == Evaluate("NatDivMod", <<a, b>>)
NatGcd(a, b) == Evaluate("NatGcd", <<a, b>>)
IntRoot(k) == Evaluate("IntRoot", <<k>>)
NatRoot(a) == Evaluate("NatRoot", <<a>>)
Ratio(s, n, d) == Evaluate("Ratio", <<s, n, d>>)
Decimal(w, f, scale) == Evaluate("Decimal", <<w, f, scale>>)
Add(a, b) == Evaluate("Add", <<a, b>>)
Mul(a, b) == Evaluate("Mul", <<a, b>>)
Sqrt(a) == Evaluate("Sqrt", <<a>>)
Direction(x, y) == Evaluate("Direction", <<x, y>>)
Atan2(y, x) == Evaluate("Atan2", <<y, x>>)
Atan(t) == Evaluate("Atan", <<t>>)
Vec3Cross(a, b) == Evaluate("Vec3Cross", <<a, b>>)
computeCoefficients(self) == Evaluate("computeCoefficients", <<self>>)
LatLongHeightToXYZ(self, latitude, longitude, height) ==
  Evaluate("LatLongHeightToXYZ", <<self, latitude, longitude, height>>)
XYZToLatLongHeight(self, X, Y, Z) == Evaluate("XYZToLatLongHeight", <<self, X, Y, Z>>)
\* Defective variants of computeCoordinateFrame: one that builds the frame in
\* a new matrix, and one whose vector east is the vector up of the call before
computeCoordinateFrameAnew(scratch, latitude, longitude, localToWorld) ==
  Evaluate("computeCoordinateFrame", <<scratch, latitude, longitude, MatrixCreate>>)
computeCoordinateFrameAliased(scratch, latitude, longitude, localToWorld) ==
  Evaluate("computeCoordinateFrame",
           <<[scratch EXCEPT !.east = scratch.up], latitude, longitude, localToWorld>>)

computeCoordinateFrame(scratch, latitude, longitude, localToWorld) ==
  Evaluate("computeCoordinateFrame", <<scratch, latitude, longitude, localToWorld>>)

\* JavaScript binary - and /, and a < b for finite a, b
Sub(a, b) == Add(a, Neg(b))
Div(a, b) == Mul(a, Recip(b))
Less(a, b) == Sub(a, b)[1] = -1

\* a without its high zero limbs
TrimBody(a) ==
  IF a = << >> THEN a
  ELSE LET nz == {i \in 1..Len(a) : a[i] # 0}
       IN IF nz = {} THEN << >> ELSE SubSeq(a, 1, CHOOSE i \in nz : \A j \in nz : j <= i)

\* a + b: position i receives a carry when a lower position overflows and
\* every position between is full
NatAddBody(a, b) ==
  IF a = << >> THEN b
  ELSE IF b = << >> THEN a
  ELSE Let(SeqOf((IF Len(a) > Len(b) THEN Len(a) ELSE Len(b)) + 1,
                 LAMBDA i : Limb(a, i) + Limb(b, i)),
           LAMBDA s :
             Let(SeqOf(Len(s), LAMBDA i : \E j \in 1..(i - 1) :
                         s[j] >= Base /\ \A m \in (j + 1)..(i - 1) : s[m] = Base - 1),
                 LAMBDA carry :
                   Trim(SeqOf(Len(s), LAMBDA i : (s[i] + (IF carry[i] THEN 1 ELSE 0)) % Base))))

\* -1, 0, 1 as a < b, a = b, a > b
NatCmpBody(a, b) ==
  IF Len(a) # Len(b) THEN (IF Len(a) < Len(b) THEN -1 ELSE 1)
  ELSE LET ne == {i \in 1..Len(a) : a[i] # b[i]}
       IN IF ne = {} THEN 0
          ELSE LET i == CHOOSE i \in ne : \A j \in ne : j <= i
               IN IF a[i] < b[i] THEN -1 ELSE 1

\* a - b for a >= b: position i lends when a lower position falls short and
\* every position between is level
NatSubBody(a, b) ==
  IF a = << >> \/ b = << >> THEN a
  ELSE Let(SeqOf(Len(a), LAMBDA i : a[i] - Limb(b, i)),
           LAMBDA d :
             Let(SeqOf(Len(a), LAMBDA i : \E j \in 1..(i - 1) :
                         d[j] < 0 /\ \A m \in (j + 1)..(i - 1) : d[m] = 0),
                 LAMBDA borrow :
                   Trim(SeqOf(Len(a),
                              LAMBDA i : (d[i] - (IF borrow[i] THEN 1 ELSE 0) + Base) % Base))))

\* a * k for a limb k
MulLimbBody(a, k) ==
  IF a = << >> \/ k = 0 THEN << >>
  ELSE IF k = 1 THEN a
  ELSE Let(<<SeqOf(Len(a), LAMBDA i : (a[i] * k) % Base),
             <<0>> \o SeqOf(Len(a), LAMBDA i : (a[i] * k) \div Base)>>,
           LAMBDA parts : NatAdd(parts[1], parts[2]))

\* a * b by columns: column k sums the a[i] * b[k + 1 - i]
NatMulBody(a, b) ==
  IF a = << >> \/ b = << >> THEN << >>
  ELSE IF Len(b) > Len(a) THEN NatMul(b, a)
  ELSE IF Len(b) = 1 THEN MulLimb(a, b[1])
  ELSE IF Len(b) > MaxColumn
  THEN NatAdd(NatMul(a, Trim(SubSeq(b, 1, MaxColumn))),
              Shift(NatMul(a, SubSeq(b, MaxColumn + 1, Len(b))), MaxColumn))
  ELSE Let(SeqOf(Len(a) + Len(b) - 1,
                 LAMBDA k : Sum({i \in 1..Len(a) : k + 1 - i \in 1..Len(b)},
                                LAMBDA i : a[i] * b[k + 1 - i])),
           LAMBDA c :
             Let(NatAdd(SeqOf(Len(c), LAMBDA k : c[k] % Base),
                        <<0>> \o SeqOf(Len(c), LAMBDA k : (c[k] \div Base) % Base)),
                 LAMBDA part :
                   NatAdd(part, <<0, 0>> \o SeqOf(Len(c), LAMBDA k : c[k] \div (Base * Base)))))

\* x * b <= cur
Fits(b, x, cur) == NatCmp(MulLimb(b, x), cur) <= 0

\* One step of the long division of a by b, from p = <<the position of the
\* next limb of a, the remainder so far, the quotient limbs so far>>: the
\* quotient limb is estimated from the two highest limbs of the remainder,
\* and the estimate is at most 2 too large
DivideStepBody(a, b, p) ==
  Let(Trim(<<a[p[1]]>> \o p[2]),
      LAMBDA cur :
        LET n   == Len(b)
            top == Limb(cur, n + 1) * Base + Limb(cur, n)
        IN Let(IF top \div b[n] > Base - 1 THEN Base - 1 ELSE top \div b[n],
               LAMBDA est :
                 Let(IF Fits(b, est, cur) THEN est
                     ELSE IF Fits(b, est - 1, cur) THEN est - 1 ELSE est - 2,
                     LAMBDA q : <<p[1] - 1, NatSub(cur, MulLimb(b, q)), <<q>> \o p[3]>>)))

\* <<quotient, remainder>> of a by b, for b of one limb, or b with its highest
\* limb at least Base / 2: the quotient limbs from the highest
LongDivideBody(a, b) ==
  Let(Iterate(LAMBDA p : DivideStep(a, b, p), LAMBDA p : p[1] = 0,
              <<Len(a) - Len(b) + 1, SubSeq(a, Len(a) - Len(b) + 2, Len(a)), << >> >>,
              Bits(Len(a) - Len(b) + 1)),
      LAMBDA r : <<Trim(r[3]), r[2]>>)

\* <<quotient, remainder>> of a by b # 0
NatDivModBody(a, b) ==
  IF NatCmp(a, b) < 0 THEN << << >>, a >>
  ELSE IF Len(a) <= 2
  THEN <<NatOfInt(NatToInt(a) \div NatToInt(b)), NatOfInt(NatToInt(a) % NatToInt(b))>>
  ELSE IF Len(b) = 1 THEN LongDivide(a, b)
  ELSE LET f == Base \div (b[Len(b)] + 1)
       IN Let(LongDivide(MulLimb(a, f), MulLimb(b, f))[1],
              LAMBDA q : <<q, NatSub(a, NatMul(q, b))>>)

\* Euclid's algorithm, at most five steps for each decimal digit of b
NatGcdBody(a, b) ==
  IF b = << >> \/ a = <<1>> THEN a
  ELSE IF a = << >> \/ b = <<1>> THEN b
  ELSE Iterate(LAMBDA p : <<p[2], NatDivMod(p[1], p[2])[2]>>, LAMBDA p : p[2] = << >>,
               <<a, b>>, Bits(5 * 4 * Len(b) + 1))[1]

\* a \div g for a divisor g of a
NatQuot(a, g) == IF g = <<1>> THEN a ELSE NatDivMod(a, g)[1]

\* the floor of the square root of a machine integer below Base^2, by bisection
IntRootBody(k) ==
  Iterate(LAMBDA p : LET mid == (p[1] + p[2] + 1) \div 2
                     IN IF mid * mid <= k THEN <<mid, p[2]>> ELSE <<p[1], mid - 1>>,
          LAMBDA p : p[1] = p[2], <<0, Base - 1>>, Bits(Bits(Base)))[1]

\* a \div 2
Halve(a) == LET m == MulLimb(a, Base \div 2) IN SubSeq(m, 2, Len(m))

\* one step x -> (x + a \div x) \div 2 of Newton's iteration
NewtonStep(a, x) == Halve(NatAdd(x, NatDivMod(a, x)[1]))

\* the floor of the square root, by Newton's iteration from an x above the
\* root, until it stops decreasing
NatRootBody(a) ==
  IF Len(a) <= 2 THEN NatOfInt(IntRoot(NatToInt(a)))
  ELSE LET n   == Len(a)
           top == IF n % 2 = 0 THEN a[n] * Base + a[n - 1] ELSE a[n]
       IN Let(Shift(NatOfInt(IntRoot(top) + 1), (n - 1) \div 2),
              LAMBDA x0 :
                Iterate(LAMBDA p : <<p[2], NewtonStep(a, p[2])>>,
                        LAMBDA p : NatCmp(p[2], p[1]) >= 0,
                        <<x0, NewtonStep(a, x0)>>, Bits(Bits(4 * n) + 3))[1])

\* s * n / d brought to lowest terms, for d # 0
RatioBody(s, n, d) ==
  IF n = << >> \/ s = 0 THEN Zero
  ELSE IF d = One THEN <<s, n, d>>
  ELSE Let(NatGcd(n, d), LAMBDA g : <<s, NatQuot(n, g), NatQuot(d, g)>>)

\* the decimal literal w.f, f given as a count of 1/scale
DecimalBody(w, f, scale) ==
  Ratio(1, NatAdd(NatMul(NatOfInt(w), NatOfInt(scale)), NatOfInt(f)), NatOfInt(scale))

\* JavaScript +
AddBody(a, b) ==
  IF a = Irrational \/ b = Irrational THEN Irrational
  ELSE IF IsNaN(a) \/ IsNaN(b) THEN NaN
  ELSE IF ~IsFinite(a) THEN (IF ~IsFinite(b) /\ b[1] # a[1] THEN NaN ELSE a)
  ELSE IF ~IsFinite(b) THEN b
  ELSE IF a[1] = 0 THEN b
  ELSE IF b[1] = 0 THEN a
  ELSE Let(<<NatMul(a[2], b[3]), NatMul(b[2], a[3]), NatMul(a[3], b[3])>>,
           LAMBDA t :
             IF a[1] = b[1] THEN Ratio(a[1], NatAdd(t[1], t[2]), t[3])
             ELSE Let(NatCmp(t[1], t[2]),
                      LAMBDA c :
                        IF c = 0 THEN Zero
                        ELSE IF c > 0 THEN Ratio(a[1], NatSub(t[1], t[2]), t[3])
                        ELSE Ratio(b[1], NatSub(t[2], t[1]), t[3])))

\* JavaScript *
MulBody(a, b) ==
  IF a = Irrational \/ b = Irrational THEN Irrational
  ELSE IF IsNaN(a) \/ IsNaN(b) THEN NaN
  ELSE IF ~IsFinite(a) \/ ~IsFinite(b)
       THEN (IF a[1] = 0 \/ b[1] = 0 THEN NaN
             ELSE IF a[1] = b[1] THEN Infinity ELSE NegInfinity)
  ELSE IF a[1] = 0 \/ b[1] = 0 THEN Zero
  ELSE Let(<<NatGcd(a[2], b[3]), NatGcd(b[2], a[3])>>,
           LAMBDA g :
             <<a[1] * b[1],
               NatMul(NatQuot(a[2], g[1]), NatQuot(b[2], g[2])),
               NatMul(NatQuot(a[3], g[2]), NatQuot(b[3], g[1]))>>)

\* Math.sqrt
SqrtBody(a) ==
  IF a = Irrational THEN a
  ELSE IF IsNaN(a) \/ a[1] < 0 THEN NaN
  ELSE IF ~IsFinite(a) \/ a[1] = 0 THEN a
  ELSE IF a[2][1] \notin SquareEnds \/ a[3][1] \notin SquareEnds THEN Irrational
  ELSE Let(NatRoot(a[3]),
           LAMBDA d :
             IF NatMul(d, d) # a[3] THEN Irrational
             ELSE Let(NatRoot(a[2]),
                      LAMBDA n : IF NatMul(n, n) # a[2] THEN Irrational ELSE <<1, n, d>>))

\* the angle of the direction (x, y), x and y finite and not both zero
DirectionBody(x, y) ==
  IF IsZero(y) THEN Angle(Num(x[1]), Zero)
  ELSE IF IsZero(x) THEN Angle(Zero, Num(y[1]))
  ELSE Let(Sqrt(Add(Mul(x, x), Mul(y, y))),
           LAMBDA h : IF h = Irrational THEN IrrationalAngle
                      ELSE Angle(Div(x, h), Div(y, h)))

\* Math.atan2(y, x)
Atan2Body(y, x) ==
  IF y = Irrational \/ x = Irrational THEN IrrationalAngle
  ELSE IF IsNaN(y) \/ IsNaN(x) THEN NaNAngle
  ELSE IF ~IsFinite(y) /\ ~IsFinite(x) THEN IrrationalAngle   \* odd multiples of pi/4
  ELSE IF ~IsFinite(y) THEN Angle(Zero, Num(y[1]))
  ELSE IF ~IsFinite(x) THEN Angle(Num(x[1]), Zero)
  ELSE IF IsZero(y) /\ IsZero(x) THEN Angle(Num(1), Zero)
  ELSE Direction(x, y)

\* Math.atan(t): the angle in [-pi/2, pi/2] of tangent t
AtanBody(t) ==
  IF t = Irrational THEN IrrationalAngle
  ELSE IF IsNaN(t) THEN NaNAngle
  ELSE IF ~IsFinite(t) THEN Angle(Zero, Num(t[1]))
  ELSE Direction(<<1, t[3], One>>, <<t[1], t[2], One>>)

\* Vec3.cross(a, b, r): r = a x b
Vec3CrossBody(a, b) ==
  <<Sub(Mul(a[2], b[3]), Mul(a[3], b[2])),
    Sub(Mul(a[3], b[1]), Mul(a[1], b[3])),
    Sub(Mul(a[1], b[2]), Mul(a[2], b[1]))>>

\* a defective variant of computeCoefficients: the flattening taken over the
\* polar radius
coefficientsOverPolar(self) ==
  Let(Div(Sub(self._radiusEquator, self._radiusPolar), self._radiusPolar),
      LAMBDA flattening :
        [self EXCEPT !._eccentricitySquared =
           Sub(Mul(Num(2), flattening), Mul(flattening, flattening))])

\* computeCoefficients: the coefficient stored for the radii of self
computeCoefficientsBody(self) ==
  Let(Div(Sub(self._radiusEquator, self._radiusPolar), self._radiusEquator),
      LAMBDA flattening :
        [self EXCEPT !._eccentricitySquared =
           Sub(Mul(Num(2), flattening), Mul(flattening, flattening))])

\* the X, Y, Z that convertLatLongHeightToXYZ computes
LatLongHeightToXYZBody(self, latitude, longitude, height) ==
  LET sinLatitude == Sin(latitude)
      cosLatitude == Cos(latitude)
  IN Let(Div(self._radiusEquator,
             Sqrt(Sub(Num(1), Mul(Mul(self._eccentricitySquared, sinLatitude), sinLatitude)))),
         LAMBDA N :
           <<Mul(Mul(Add(N, height), cosLatitude), Cos(longitude)),
             Mul(Mul(Add(N, height), cosLatitude), Sin(longitude)),
             Mul(Add(Mul(N, Sub(Num(1), self._eccentricitySquared)), height), sinLatitude)>>)

\* var cosLat = Math.cos( latitude ); if ( cosLat === 0 ) cosLat = 1;
cosLatitude(latitude) == Cos(latitude)
cosLat(latitude) == IF Cos(latitude) = Zero THEN Num(1) ELSE Cos(latitude)

\* the latitude, longitude and height that convertXYZToLatLongHeight computes
XYZToLatLongHeightBody(self, X, Y, Z) ==
  Let(Sqrt(Add(Mul(X, X), Mul(Y, Y))),
      LAMBDA p :
        Let(Atan2(Mul(Z, self._radiusEquator), Mul(p, self._radiusPolar)),
            LAMBDA theta :
              LET eDashSquared ==
                    Div(Sub(Mul(self._radiusEquator, self._radiusEquator),
                            Mul(self._radiusPolar, self._radiusPolar)),
                        Mul(self._radiusPolar, self._radiusPolar))
                  sinTheta == Sin(theta)
                  cosTheta == Cos(theta)
              IN Let(Atan(Div(Add(Z, Mul(Mul(Mul(Mul(eDashSquared, self._radiusPolar),
                                                 sinTheta), sinTheta), sinTheta)),
                              Sub(p, Mul(Mul(Mul(Mul(self._eccentricitySquared,
                                                     self._radiusEquator),
                                                 cosTheta), cosTheta), cosTheta)))),
                     LAMBDA latitude :
                       LET longitude == Atan2(Y, X)
                           sinLatitude == Sin(latitude)
                           N == Div(self._radiusEquator,
                                    Sqrt(Sub(Num(1), Mul(Mul(self._eccentricitySquared,
                                                             sinLatitude), sinLatitude))))
                           height == Sub(Div(p, cosLat(latitude)), N)
                       IN <<latitude, longitude, height>>)))

\* computeCoordinateFrame: scratch holds the vectors up, east and north of the
\* closure, shared by all models; the result is the scratch and the matrix after
computeCoordinateFrameBody(scratch, latitude, longitude, localToWorld) ==
  Let(<<Mul(Cos(longitude), Cos(latitude)),
        Mul(Sin(longitude), Cos(latitude)),
        Sin(latitude)>>,
      LAMBDA up :
        Let(<<Neg(Sin(longitude)), Neg(Cos(longitude)), scratch.east[3]>>,
            LAMBDA east :
              Let(Vec3Cross(up, east),
                  LAMBDA north :
                    LET m1 == MatrixSet(MatrixSet(MatrixSet(localToWorld,
                                0, 0, east[1]), 0, 1, east[2]), 0, 2, east[3])
                        m2 == MatrixSet(MatrixSet(MatrixSet(m1,
                                1, 0, north[1]), 1, 1, north[2]), 1, 2, north[3])
                        m3 == MatrixSet(MatrixSet(MatrixSet(m2,
                                2, 0, up[1]), 2, 1, up[2]), 2, 2, up[3])
                    IN [scratch |-> [up |-> up, east |-> east, north |-> north],
                        localToWorld |-> m3])))

Evaluate(op, operands) ==
  CASE op = "Trim" -> TrimBody(operands[1])
    [] op = "NatAdd" -> NatAddBody(operands[1], operands[2])
    [] op = "NatCmp" -> NatCmpBody(operands[1], operands[2])
    [] op = "NatSub" -> NatSubBody(operands[1], operands[2])
    [] op = "MulLimb" -> MulLimbBody(operands[1], operands[2])
    [] op = "NatMul" -> NatMulBody(operands[1], operands[2])
    [] op = "DivideStep" -> DivideStepBody(operands[1], operands[2], operands[3])
    [] op = "LongDivide" -> LongDivideBody(operands[1], operands[2])
    [] op = "NatDivMod" -> NatDivModBody(operands[1], operands[2])
    [] op = "NatGcd" -> NatGcdBody(operands[1], operands[2])
    [] op = "IntRoot" -> IntRootBody(operands[1])
    [] op = "NatRoot" -> NatRootBody(operands[1])
    [] op = "Ratio" -> RatioBody(operands[1], operands[2], operands[3])
    [] op = "Decimal" -> DecimalBody(operands[1], operands[2], operands[3])
    [] op = "Add" -> AddBody(operands[1], operands[2])
    [] op = "Mul" -> MulBody(operands[1], operands[2])
    [] op = "Sqrt" -> SqrtBody(operands[1])
    [] op = "Direction" -> DirectionBody(operands[1], operands[2])
    [] op = "Atan2" -> Atan2Body(operands[1], operands[2])
    [] op = "Atan" -> AtanBody(operands[1])
    [] op = "Vec3Cross" -> Vec3CrossBody(operands[1], operands[2])
    [] op = "computeCoefficients" -> computeCoefficientsBody(operands[1])
    [] op = "LatLongHeightToXYZ" ->
         LatLongHeightToXYZBody(operands[1], operands[2], operands[3], operands[4])
    [] op = "XYZToLatLongHeight" ->
         XYZToLatLongHeightBody(operands[1], operands[2], operands[3], operands[4])
    [] op = "computeCoordinateFrame" ->
         computeCoordinateFrameBody(operands[1], operands[2], operands[3], operands[4])

(***************************************************************************)
(* EllipsoidModel                                                          *)
(***************************************************************************)
WGS_84_RADIUS_EQUATOR == Num(6378137)
WGS_84_RADIUS_POLAR == Decimal(6356752, 3142, 10000)

\* Defective variants of the constructor: one that stores the radii in each
\* other's place, and one that takes the radii it is given
EllipsoidModelSwapped(arguments) ==
  computeCoefficients([_radiusEquator |-> WGS_84_RADIUS_POLAR,
                       _radiusPolar |-> WGS_84_RADIUS_EQUATOR,
                       _eccentricitySquared |-> Undefined])
EllipsoidModelWithRadii(arguments) ==
  computeCoefficients([_radiusEquator |-> IF arguments = << >> THEN WGS_84_RADIUS_EQUATOR
                                          ELSE arguments[1],
                       _radiusPolar |-> IF arguments = << >> THEN WGS_84_RADIUS_POLAR
                                        ELSE arguments[2],
                       _eccentricitySquared |-> Undefined])

\* new EllipsoidModel( ... ): the function declares no parameter
EllipsoidModel(arguments) ==
  computeCoefficients([_radiusEquator |-> WGS_84_RADIUS_EQUATOR,
                       _radiusPolar |-> WGS_84_RADIUS_POLAR,
                       _eccentricitySquared |-> Undefined])

\* a defective variant of the setter: the radius stored, the coefficient kept
storeRadiusPolar(self, radius) == [self EXCEPT !._radiusPolar = radius]

setRadiusEquator(self, radius) == computeCoefficients([self EXCEPT !._radiusEquator = radius])
setRadiusPolar(self, radius) == computeCoefficients([self EXCEPT !._radiusPolar = radius])
getRadiusEquator(self) == self._radiusEquator
getRadiusPolar(self) == self._radiusPolar

\* a defective variant of isWGS84: the polar radius not compared
isEquatorWGS84(self) == self._radiusEquator = WGS_84_RADIUS_EQUATOR

isWGS84(self) ==
  self._radiusEquator = WGS_84_RADIUS_EQUATOR /\ self._radiusPolar = WGS_84_RADIUS_POLAR

(***************************************************************************)
(* The inputs of the model.                                                *)
(***************************************************************************)
MaxRadius == 1
MaxPyth == 2
MaxHeight == 1
MaxCoord == 1

Models == {"m1", "m2"}

RadiusValues ==
  {WGS_84_RADIUS_EQUATOR, WGS_84_RADIUS_POLAR} \cup {Num(k) : k \in 1..MaxRadius}

\* new EllipsoidModel() and new EllipsoidModel(radiusEquator, radiusPolar)
ConstructorArguments ==
  {<< >>} \cup {<<Num(a), Num(b)>> : a \in 1..MaxRadius, b \in 1..MaxRadius}

\* the angles of the triangles (m^2 - n^2, 2mn, m^2 + n^2)
PythAngles ==
  {Angle(Div(Num(q[1] * q[1] - q[2] * q[2]), Num(q[1] * q[1] + q[2] * q[2])),
         Div(Num(2 * q[1] * q[2]), Num(q[1] * q[1] + q[2] * q[2])))
     : q \in {r \in (1..MaxPyth) \X (1..MaxPyth) : r[2] < r[1]}}

Latitudes == {Angle(Num(1), Zero), Angle(Zero, Num(1)), Angle(Zero, Num(-1))} \cup PythAngles
Longitudes == {Angle(Num(1), Zero)} \cup PythAngles
Heights == {Num(h) : h \in 0..MaxHeight}
Points ==
  {<<Num(q[1]), Num(q[2]), Num(q[3])>> :
     q \in {r \in (0..MaxCoord) \X (0..MaxCoord) \X (0..MaxCoord) : r[1] + r[2] + r[3] <= MaxCoord}}

\* no entry of the container is a value the model cannot represent
Representable(v) ==
  \A i \in 1..Len(v) : v[i] # Irrational /\ v[i] # IrrationalAngle

\* the models the setters can reach
ModelStates ==
  {computeCoefficients([_radiusEquator |-> a, _radiusPolar |-> b,
                        _eccentricitySquared |-> Undefined]) :
     a \in RadiusValues, b \in RadiusValues}

\* The two computations on the inputs of the model, evaluated once, as sets
\* of pairs <<arguments, value>>: on every model, latitude, longitude and
\* height, and on the points of the grid and the points the first computation
\* gives for the same model.
XYZTable ==
  {<<k, LatLongHeightToXYZ(k[1], k[2], k[3], k[4])>> :
     k \in ModelStates \X Latitudes \X Longitudes \X Heights}

LatLongHeightTable ==
  {<<k, XYZToLatLongHeight(k[1], k[2][1], k[2][2], k[2][3])>> :
     k \in {<<m, point>> : m \in ModelStates, point \in Points}
           \cup {<<e[1][1], e[2]>> : e \in {i \in XYZTable : Representable(i[2])}}}

\* the value the table holds for the arguments, or else value
Lookup(table, arguments, value) ==
  IF \E e \in table : e[1] = arguments
  THEN (CHOOSE e \in table : e[1] = arguments)[2]
  ELSE value

\* What a call leaves behind: the container it returns (ret), whether that is
\* the container the caller passed (same), the warnings it gave to Notify.warn
\* (warnings) and the containers it allocated (created).
Outcome(ret, same, warnings, created) ==
  [ret |-> ret, same |-> same, warnings |-> warnings, created |-> created]

\* a defective variant of convertLatLongHeightToXYZ: the container of the
\* caller never used
convertLatLongHeightToXYZAnew(self, latitude, longitude, height, result) ==
  Let(Lookup(XYZTable, <<self, latitude, longitude, height>>,
             LatLongHeightToXYZ(self, latitude, longitude, height)),
      LAMBDA xyz :
        Outcome(Store3(Vec3Create, xyz[1], xyz[2], xyz[3]), FALSE,
                <<"deprecated, use this signature convertLatLongHeightToXYZ( latitude, longitude, height, result )">>,
                1))

convertLatLongHeightToXYZ(self, latitude, longitude, height, result) ==
  Let(Lookup(XYZTable, <<self, latitude, longitude, height>>,
             LatLongHeightToXYZ(self, latitude, longitude, height)),
      LAMBDA xyz :
        Outcome(Store3(IF result = Undefined THEN Vec3Create ELSE result,
                       xyz[1], xyz[2], xyz[3]),
                result # Undefined,
                IF result = Undefined
                THEN <<"deprecated, use this signature convertLatLongHeightToXYZ( latitude, longitude, height, result )">>
                ELSE << >>,
                IF result = Undefined THEN 1 ELSE 0))

convertXYZToLatLongHeight(self, X, Y, Z, result) ==
  Let(Lookup(LatLongHeightTable, <<self, <<X, Y, Z>> >>, XYZToLatLongHeight(self, X, Y, Z)),
      LAMBDA llh :
        Outcome(Store3(IF result = Undefined THEN Vec3Create ELSE result,
                       llh[1], llh[2], llh[3]),
                result # Undefined,
                IF result = Undefined
                THEN <<"deprecated, use this signature convertXYZToLatLongHeight( X,  Y,  Z , result)">>
                ELSE << >>,
                IF result = Undefined THEN 1 ELSE 0))

\* a defective variant of computeLocalUpVector: a vector passed to the inner call
computeLocalUpVectorInto(self, X, Y, Z) ==
  Let(convertXYZToLatLongHeight(self, X, Y, Z, Vec3Create),
      LAMBDA coord :
        Outcome(<<Mul(Cos(coord.ret[2]), Cos(coord.ret[1])),
                  Mul(Sin(coord.ret[2]), Cos(coord.ret[1])),
                  Sin(coord.ret[1])>>,
                FALSE, coord.warnings, coord.created + 2))

\* the fourth argument of the inner call is the local latitude, still undefined
computeLocalUpVector(self, X, Y, Z) ==
  Let(convertXYZToLatLongHeight(self, X, Y, Z, Undefined),
      LAMBDA coord :
        LET latitude == coord.ret[1]
            longitude == coord.ret[2]
        IN Outcome(<<Mul(Cos(longitude), Cos(latitude)),
                     Mul(Sin(longitude), Cos(latitude)),
                     Sin(latitude)>>,
                   FALSE, coord.warnings, coord.created + 1))

\* a defective variant of computeLocalToWorldTransformFromLatLongHeight: the
\* frame written over the position, without Matrix.makeTranslate
computeLocalToWorldTransformUntranslated(self, scratch, latitude, longitude, height, result) ==
  Let(convertLatLongHeightToXYZ(self, latitude, longitude, height,
                                IF result = Undefined THEN MatrixCreate ELSE result),
      LAMBDA pos :
        Let(computeCoordinateFrame(scratch, latitude, longitude, pos.ret),
            LAMBDA frame :
              [scratch |-> frame.scratch,
               outcome |-> Outcome(frame.localToWorld, result # Undefined,
                 (IF result = Undefined
                  THEN <<"deprecated, use this signature computeLocalToWorldTransformFromLatLongHeight(latitude, longitude, height, result)">>
                  ELSE << >>) \o pos.warnings,
                 (IF result = Undefined THEN 1 ELSE 0) + pos.created)]))

\* the two transforms: the outcome of the call and the scratch it leaves
computeLocalToWorldTransformFromLatLongHeight(self, scratch, latitude, longitude, height, result) ==
  Let(convertLatLongHeightToXYZ(self, latitude, longitude, height,
                                IF result = Undefined THEN MatrixCreate ELSE result),
      LAMBDA pos :
        Let(computeCoordinateFrame(scratch, latitude, longitude,
              MatrixMakeTranslate(pos.ret[1], pos.ret[2], pos.ret[3], pos.ret)),
            LAMBDA frame :
              [scratch |-> frame.scratch,
               outcome |-> Outcome(frame.localToWorld, result # Undefined,
                 (IF result = Undefined
                  THEN <<"deprecated, use this signature computeLocalToWorldTransformFromLatLongHeight(latitude, longitude, height, result)">>
                  ELSE << >>) \o pos.warnings,
                 (IF result = Undefined THEN 1 ELSE 0) + pos.created)]))

\* a defective variant of computeLocalToWorldTransformFromXYZ: the transform
\* of the latitude, longitude and height of the point
computeLocalToWorldTransformViaLatLongHeight(self, scratch, X, Y, Z) ==
  Let(convertXYZToLatLongHeight(self, X, Y, Z, Undefined),
      LAMBDA lla :
        Let(computeLocalToWorldTransformFromLatLongHeight(
              self, scratch, lla.ret[1], lla.ret[2], lla.ret[3], MatrixCreate),
            LAMBDA via :
              [scratch |-> via.scratch,
               outcome |-> Outcome(via.outcome.ret, FALSE, lla.warnings, lla.created + 1)]))

computeLocalToWorldTransformFromXYZ(self, scratch, X, Y, Z) ==
  Let(convertXYZToLatLongHeight(self, X, Y, Z, Undefined),
      LAMBDA lla :
        Let(computeCoordinateFrame(scratch, lla.ret[1], lla.ret[2],
              MatrixMakeTranslate(X, Y, Z, MatrixCreate)),
            LAMBDA frame :
              [scratch |-> frame.scratch,
               outcome |-> Outcome(frame.localToWorld, FALSE, lla.warnings, lla.created + 1)]))

(***************************************************************************)
(* The containers and the runs of the model.                               *)
(***************************************************************************)
MaxCalls == 2

\* a value an earlier use left in a container
Junk == Num(7)

\* the containers a caller passes: none, or one that was used before
Vec3Arguments == {Undefined, SeqOf(3, LAMBDA i : Junk)}
Matrices == {MatrixCreate, SeqOf(16, LAMBDA i : Junk)}
MatrixArguments == {Undefined} \cup Matrices

(***************************************************************************)
(* The state: the models, the scratch vectors of computeCoordinateFrame,   *)
(* the last call with what it returned (and, in prior, the operation, the  *)
(* model and the arguments of the call before it), and the number of calls *)
(* so far.                                                                 *)
(***************************************************************************)
VARIABLES models, scratch, call, calls

vars == <<models, scratch, call, calls>>

\* one more call, of a run of at most MaxCalls
Called == calls < MaxCalls /\ calls' = calls + 1

Call(op, self, args, given, from, out) ==
  [op |-> op, self |-> self, args |-> args, given |-> given, from |-> from, out |-> out,
   prior |-> <<call.op, call.self, call.args>>]

Init ==
  /\ models = [m \in Models |-> EllipsoidModel(<< >>)]
  /\ scratch = [up |-> Vec3Create, east |-> Vec3Create, north |-> Vec3Create]
  /\ call = [op |-> "load", self |-> "m1", args |-> << >>, given |-> Undefined,
             from |-> << >>, out |-> Outcome(<< >>, FALSE, << >>, 0), prior |-> << >>]
  /\ calls = 0

New ==
  /\ Called
  /\ \E self \in Models, arguments \in ConstructorArguments :
    /\ models' = [models EXCEPT ![self] = EllipsoidModel(arguments)]
    /\ call' = Call("new", self, arguments, Undefined, << >>, Outcome(<< >>, FALSE, << >>, 1))
    /\ UNCHANGED scratch

SetRadiusEquator ==
  /\ Called
  /\ \E self \in Models, radius \in RadiusValues :
    /\ models' = [models EXCEPT ![self] = setRadiusEquator(models[self], radius)]
    /\ call' = Call("setRadiusEquator", self, <<radius>>, Undefined, << >>,
                    Outcome(<< >>, FALSE, << >>, 0))
    /\ UNCHANGED scratch

SetRadiusPolar ==
  /\ Called
  /\ \E self \in Models, radius \in RadiusValues :
    /\ models' = [models EXCEPT ![self] = setRadiusPolar(models[self], radius)]
    /\ call' = Call("setRadiusPolar", self, <<radius>>, Undefined, << >>,
                    Outcome(<< >>, FALSE, << >>, 0))
    /\ UNCHANGED scratch

\* a defective variant of the call of getRadiusEquator: the radius is lost
GetRadiusEquatorAndClear ==
  /\ Called
  /\ \E self \in Models :
    /\ call' = Call("getRadiusEquator", self, << >>, Undefined, << >>,
                    Outcome(getRadiusEquator(models[self]), FALSE, << >>, 0))
    /\ models' = [models EXCEPT ![self]._radiusEquator = Undefined]
    /\ UNCHANGED scratch

GetRadiusEquator ==
  /\ Called
  /\ \E self \in Models :
    /\ call' = Call("getRadiusEquator", self, << >>, Undefined, << >>,
                    Outcome(getRadiusEquator(models[self]), FALSE, << >>, 0))
    /\ UNCHANGED <<models, scratch>>

GetRadiusPolar ==
  /\ Called
  /\ \E self \in Models :
    /\ call' = Call("getRadiusPolar", self, << >>, Undefined, << >>,
                    Outcome(getRadiusPolar(models[self]), FALSE, << >>, 0))
    /\ UNCHANGED <<models, scratch>>

IsWGS84 ==
  /\ Called
  /\ \E self \in Models :
    /\ call' = Call("isWGS84", self, << >>, Undefined, << >>,
                    Outcome(isWGS84(models[self]), FALSE, << >>, 0))
    /\ UNCHANGED <<models, scratch>>

ConvertLatLongHeightToXYZ ==
  /\ Called
  /\ \E self \in Models, latitude \in Latitudes, longitude \in Longitudes,
     height \in Heights, result \in Vec3Arguments :
    \E out \in {convertLatLongHeightToXYZ(models[self], latitude, longitude, height, result)} :
       /\ Representable(out.ret)
       /\ call' = Call("convertLatLongHeightToXYZ", self, <<latitude, longitude, height>>,
                       result, << >>, out)
       /\ UNCHANGED <<models, scratch>>

\* the points a caller converts back: the points of the model's grid, and the
\* point the conversion from latitude, longitude and height has just returned
PointsNow ==
  Points \cup (IF call.op = "convertLatLongHeightToXYZ"
               THEN {SubSeq(call.out.ret, 1, 3)} ELSE {})

\* the call that produced the point, when it is not a point of the grid
FromCall(point) ==
  IF call.op = "convertLatLongHeightToXYZ" /\ point = SubSeq(call.out.ret, 1, 3)
  THEN <<call.self>> \o call.args ELSE << >>

ConvertXYZToLatLongHeight ==
  /\ Called
  /\ \E self \in Models, point \in PointsNow, result \in Vec3Arguments :
    \E out \in {convertXYZToLatLongHeight(models[self], point[1], point[2], point[3], result)} :
       /\ Representable(out.ret)
       /\ call' = Call("convertXYZToLatLongHeight", self, point, result, FromCall(point), out)
       /\ UNCHANGED <<models, scratch>>

ComputeLocalUpVector ==
  /\ Called
  /\ \E self \in Models, point \in PointsNow :
    \E out \in {computeLocalUpVector(models[self], point[1], point[2], point[3])} :
       /\ Representable(out.ret)
       /\ call' = Call("computeLocalUpVector", self, point, Undefined, FromCall(point), out)
       /\ UNCHANGED <<models, scratch>>

ComputeCoordinateFrame ==
  /\ Called
  /\ \E self \in Models, latitude \in Latitudes, longitude \in Longitudes,
     localToWorld \in Matrices :
    \E frame \in {computeCoordinateFrame(scratch, latitude, longitude, localToWorld)} :
       /\ scratch' = frame.scratch
       /\ call' = Call("computeCoordinateFrame", self, <<latitude, longitude>>, localToWorld,
                       << >>, Outcome(frame.localToWorld, FALSE, << >>, 0))
       /\ UNCHANGED models

ComputeLocalToWorldTransformFromLatLongHeight ==
  /\ Called
  /\ \E self \in Models, latitude \in Latitudes, longitude \in Longitudes,
     height \in Heights, result \in MatrixArguments :
    \E done \in {computeLocalToWorldTransformFromLatLongHeight(
                   models[self], scratch, latitude, longitude, height, result)} :
       /\ Representable(done.outcome.ret)
       /\ scratch' = done.scratch
       /\ call' = Call("computeLocalToWorldTransformFromLatLongHeight", self,
                       <<latitude, longitude, height>>, result, << >>, done.outcome)
       /\ UNCHANGED models

ComputeLocalToWorldTransformFromXYZ ==
  /\ Called
  /\ \E self \in Models, point \in PointsNow :
    \E done \in {computeLocalToWorldTransformFromXYZ(
                   models[self], scratch, point[1], point[2], point[3])} :
       /\ Representable(done.outcome.ret)
       /\ scratch' = done.scratch
       /\ call' = Call("computeLocalToWorldTransformFromXYZ", self, point, Undefined,
                       FromCall(point), done.outcome)
       /\ UNCHANGED models

Next ==
  \/ ComputeCoordinateFrame
  \/ ComputeLocalToWorldTransformFromLatLongHeight
  \/ ComputeLocalToWorldTransformFromXYZ
  \/ New
  \/ SetRadiusEquator
  \/ SetRadiusPolar
  \/ GetRadiusEquator
  \/ GetRadiusPolar
  \/ IsWGS84
  \/ ConvertLatLongHeightToXYZ
  \/ ConvertXYZToLatLongHeight
  \/ ComputeLocalUpVector

Spec == Init /\ [][Next]_vars

(***************************************************************************)
(* The properties.                                                         *)
(***************************************************************************)
\* 6378137.0 and 6356752.3142 = 31783761571 / 5000, written out
Equator6378137 == <<1, <<8137, 637>>, One>>
Polar6356752_3142 == <<1, <<1571, 8376, 317>>, <<5000>> >>

\* 2f - f*f with f = (radiusEquator - radiusPolar) / radiusEquator
Coefficient(radiusEquator, radiusPolar) ==
  LET f == Div(Sub(radiusEquator, radiusPolar), radiusEquator)
  IN Sub(Mul(Num(2), f), Mul(f, f))

\* the same on the radii of the model, evaluated once
CoefficientTable ==
  {<<k, Coefficient(k[1], k[2])>> : k \in RadiusValues \X RadiusValues}

\* C1: in every reachable state, after the construction and after any setter
\* calls, the stored _eccentricitySquared of every model is 2f - f*f for the
\* radii it stores now, so no conversion starts with a stale coefficient.
C1_CoefficientConsistent ==
  \A m \in Models :
    models[m]._eccentricitySquared =
      Lookup(CoefficientTable, <<getRadiusEquator(models[m]), getRadiusPolar(models[m])>>,
             Coefficient(getRadiusEquator(models[m]), getRadiusPolar(models[m])))

\* C1: both setters have run on one model, and both radii differ from those
\* of the construction
C1_BothRadiiSet ==
  /\ call.op = "setRadiusPolar"
  /\ call.prior[1] = "setRadiusEquator"
  /\ call.prior[2] = call.self
  /\ models[call.self]._radiusEquator = WGS_84_RADIUS_POLAR
  /\ models[call.self]._radiusPolar = Num(1)

\* C4: a model that was just constructed (at the start, or by the last call)
\* has getRadiusEquator() = 6378137.0, getRadiusPolar() = 6356752.3142 and
\* isWGS84() true.
C4_FreshModelIsWGS84 ==
  \A m \in Models :
    (calls = 0 \/ (call.op = "new" /\ call.self = m)) =>
      /\ getRadiusEquator(models[m]) = Equator6378137
      /\ getRadiusPolar(models[m]) = Polar6356752_3142
      /\ isWGS84(models[m])

\* C4: a model constructed by a call, after the other model was changed
C4_ConstructedAfterSet ==
  /\ call.op = "new"
  /\ call.prior[1] = "setRadiusEquator"
  /\ call.prior[2] # call.self
  /\ ~isWGS84(models[call.prior[2]])

\* C5: in every reachable state isWGS84() is true of a model exactly when its
\* equatorial radius is 6378137.0 and its polar radius is 6356752.3142, and
\* a call of isWGS84 returns that.
C5_IsWGS84Exactly ==
  /\ \A m \in Models :
       isWGS84(models[m]) <=> (models[m]._radiusEquator = Equator6378137
                               /\ models[m]._radiusPolar = Polar6356752_3142)
  /\ call.op = "isWGS84" =>
       (call.out.ret <=> (models[call.self]._radiusEquator = Equator6378137
                          /\ models[call.self]._radiusPolar = Polar6356752_3142))

\* C5: the polar radius was set to another value and then set back
C5_SetBack ==
  /\ call.op = "setRadiusPolar"
  /\ call.prior = <<"setRadiusPolar", call.self, <<Num(1)>> >>
  /\ call.args = <<Polar6356752_3142>>
  /\ isWGS84(models[call.self])

\* the rows of the 3x3 block of a matrix, and the scalar product
Row(matrix, r) == SubSeq(matrix, 4 * r + 1, 4 * r + 3)
Dot(a, b) == Add(Add(Mul(a[1], b[1]), Mul(a[2], b[2])), Mul(a[3], b[3]))

\* a latitude strictly between -89 and 89 degrees: its cosine is above
\* 0.0175 > cos(89 degrees)
InBand(latitude) == Less(Decimal(0, 175, 10000), Cos(latitude))

\* C2: after a call of computeCoordinateFrame with a latitude strictly between
\* -89 and 89 degrees, the rows east, north and up of the matrix are of unit
\* length, pairwise orthogonal and right-handed (east x north = up).
C2_FrameOrthonormal ==
  (call.op = "computeCoordinateFrame" /\ InBand(call.args[1])) =>
    LET east == Row(call.out.ret, 0)
        north == Row(call.out.ret, 1)
        up == Row(call.out.ret, 2)
    IN /\ Dot(east, east) = Num(1)
       /\ Dot(north, north) = Num(1)
       /\ Dot(up, up) = Num(1)
       /\ Dot(east, north) = Zero
       /\ Dot(east, up) = Zero
       /\ Dot(north, up) = Zero
       /\ Vec3Cross(east, north) = up

\* the calls that construct or set
Writers == {"load", "new", "setRadiusEquator", "setRadiusPolar"}

\* C6: no call of a getter, of isWGS84, of a conversion, of
\* computeLocalUpVector, of computeCoordinateFrame or of a transform changes
\* the radii or the coefficient of any model, whatever its arguments.
C6_ReadersKeepModels ==
  [][call'.op \notin Writers => models' = models]_vars

\* C6: a conversion was called on a model right after its radius was set
C6_ReadAfterSet ==
  /\ call.op = "convertXYZToLatLongHeight"
  /\ call.prior[1] = "setRadiusEquator"
  /\ call.prior[2] = call.self
  /\ models[call.self]._radiusEquator = Num(1)

\* N = radiusEquator / sqrt(1 - eccentricitySquared * sin(latitude)^2)
PrimeVertical(self, latitude) ==
  Div(getRadiusEquator(self),
      Sqrt(Sub(Num(1), Mul(Mul(self._eccentricitySquared, Sin(latitude)), Sin(latitude)))))

NorthPole == Angle(Zero, Num(1))

\* C7: convertXYZToLatLongHeight on the point convertLatLongHeightToXYZ
\* returned for latitude 90 degrees gets a point on the polar axis and
\* returns a finite height; and whenever the point is on the polar axis and
\* the cosine of the recovered latitude is zero, the height is p / 1 - N with
\* p = 0.
C7_PoleHeightFinite ==
  call.op = "convertXYZToLatLongHeight" =>
    /\ (call.from # << >> /\ call.from[2] = NorthPole) =>
         /\ call.args[1] = Zero /\ call.args[2] = Zero
         /\ Cos(call.out.ret[1]) = Zero
         /\ IsFinite(call.out.ret[3])
    /\ (call.args[1] = Zero /\ call.args[2] = Zero /\ Cos(call.out.ret[1]) = Zero) =>
         /\ IsFinite(call.out.ret[3])
         /\ call.out.ret[3] = Neg(PrimeVertical(models[call.self], call.out.ret[1]))

\* C7: the conversion back of the point of latitude 90 degrees, longitude
\* not 0 and height 1
C7_BackFromPole ==
  /\ call.op = "convertXYZToLatLongHeight"
  /\ call.from # << >>
  /\ call.from[2] = NorthPole
  /\ call.from[3] # Angle(Num(1), Zero)
  /\ call.from[4] = Num(1)
  /\ call.from[1] = call.self

\* C8: convertLatLongHeightToXYZ(0, 0, 0) returns (radiusEquator, 0, 0) and
\* convertLatLongHeightToXYZ(pi/2, 0, 0) returns (0, 0, radiusPolar), which
\* on a model with the WGS-84 radii are (6378137.0, 0, 0) and
\* (0, 0, 6356752.3142).
C8_ExampleValues ==
  call.op = "convertLatLongHeightToXYZ" =>
    /\ call.args = <<Angle(Num(1), Zero), Angle(Num(1), Zero), Zero>> =>
         /\ call.out.ret = <<getRadiusEquator(models[call.self]), Zero, Zero>>
         /\ isWGS84(models[call.self]) => call.out.ret = <<Equator6378137, Zero, Zero>>
    /\ call.args = <<NorthPole, Angle(Num(1), Zero), Zero>> =>
         /\ call.out.ret = <<Zero, Zero, getRadiusPolar(models[call.self])>>
         /\ isWGS84(models[call.self]) => call.out.ret = <<Zero, Zero, Polar6356752_3142>>

\* C8: the conversion of (pi/2, 0, 0) on a model with the WGS-84 radii, into
\* a container that held other values
C8_PoleOnWGS84 ==
  /\ call.op = "convertLatLongHeightToXYZ"
  /\ call.args = <<NorthPole, Angle(Num(1), Zero), Zero>>
  /\ call.given # Undefined
  /\ isWGS84(models[call.self])

\* C9, as the specification states it: a model constructed with radii
\* returns them from getRadiusEquator() and getRadiusPolar().
C9_ConstructorTakesRadii ==
  (call.op = "new" /\ call.args # << >>) =>
    /\ getRadiusEquator(models[call.self]) = call.args[1]
    /\ getRadiusPolar(models[call.self]) = call.args[2]

\* C9, amended: the constructor takes no radii; a model constructed with or
\* without arguments has the WGS-84 radii and the coefficient derived from
\* them.  Other radii are reached by the setters only.
C9_ConstructorIgnoresArguments ==
  call.op = "new" =>
    /\ getRadiusEquator(models[call.self]) = Equator6378137
    /\ getRadiusPolar(models[call.self]) = Polar6356752_3142
    /\ models[call.self]._eccentricitySquared =
         Lookup(CoefficientTable, <<Equator6378137, Polar6356752_3142>>, Undefined)

\* C9: a construction with radii
C9_ConstructedWithRadii ==
  call.op = "new" /\ call.args = <<Num(1), Num(1)>>

\* the calls with an optional output parameter
Deprecating ==
  {"convertLatLongHeightToXYZ", "convertXYZToLatLongHeight",
   "computeLocalToWorldTransformFromLatLongHeight"}

\* the container a call of Deprecating fills when it is given none
Fresh(op) ==
  IF op = "computeLocalToWorldTransformFromLatLongHeight" THEN MatrixCreate ELSE Vec3Create

\* the latitude, longitude and height, or the X, Y, Z, the model computes for
\* the arguments of a conversion
Converted(op, self, args) ==
  IF op = "convertLatLongHeightToXYZ"
  THEN Lookup(XYZTable, <<self>> \o args,
              LatLongHeightToXYZ(self, args[1], args[2], args[3]))
  ELSE Lookup(LatLongHeightTable, <<self, args>>,
              XYZToLatLongHeight(self, args[1], args[2], args[3]))

\* C10: a call of convertLatLongHeightToXYZ, convertXYZToLatLongHeight or
\* computeLocalToWorldTransformFromLatLongHeight without the output parameter
\* gives one deprecation warning and returns a container it allocated; with
\* the output parameter it gives no warning, allocates nothing and returns
\* the container it was given, with the result written into it; either way
\* the container holds the result.
C10_OutputParameter ==
  call.op \in Deprecating =>
    /\ call.given = Undefined =>
         /\ Len(call.out.warnings) = 1
         /\ ~call.out.same
         /\ call.out.created = 1
         /\ Len(call.out.ret) = Len(Fresh(call.op))
    /\ call.given # Undefined =>
         /\ call.out.warnings = << >>
         /\ call.out.same
         /\ call.out.created = 0
         /\ Len(call.out.ret) = Len(call.given)
    /\ call.op # "computeLocalToWorldTransformFromLatLongHeight" =>
         call.out.ret = Converted(call.op, models[call.self], call.args)

\* C10: a conversion into a container that held other values, repeating the
\* conversion of the call before it on the same model
C10_BothShapes ==
  /\ call.op = "convertLatLongHeightToXYZ"
  /\ call.given # Undefined
  /\ call.prior = <<call.op, call.self, call.args>>
  /\ call.args[1] # Angle(Num(1), Zero)

\* the entries of the translation row and of the fourth column of a matrix
TranslationRow == {13, 14, 15, 16}
FourthColumn == {4, 8, 12, 16}

\* C11: a call of computeCoordinateFrame(latitude, longitude, m) leaves the
\* translation row and the fourth column of m as they were, whatever they
\* held, and writes into the nine other entries east = (-sin(lon), -cos(lon),
\* east[2]) as row 0, north = up x east as row 1 and up = (cos(lon)cos(lat),
\* sin(lon)cos(lat), sin(lat)) as row 2.
C11_NineEntries ==
  call.op = "computeCoordinateFrame" =>
    LET latitude == call.args[1]
        longitude == call.args[2]
        up == <<Mul(Cos(longitude), Cos(latitude)), Mul(Sin(longitude), Cos(latitude)),
                Sin(latitude)>>
    IN /\ \A i \in TranslationRow \cup FourthColumn : call.out.ret[i] = call.given[i]
       /\ Len(call.out.ret) = 16
       /\ Row(call.out.ret, 0) = scratch.east
       /\ SubSeq(scratch.east, 1, 2) = <<Neg(Sin(longitude)), Neg(Cos(longitude))>>
       /\ Row(call.out.ret, 1) = Vec3Cross(up, scratch.east)
       /\ Row(call.out.ret, 2) = up

\* C11: a frame written into a matrix that held other values, for a latitude
\* and a longitude that are not 0
C11_FrameIntoUsedMatrix ==
  /\ call.op = "computeCoordinateFrame"
  /\ call.given # MatrixCreate
  /\ Sin(call.args[1]) # Zero
  /\ Sin(call.args[2]) # Zero
  /\ call.out.ret[13] = Junk

\* the matrix computeCoordinateFrame fills for a latitude and a longitude,
\* from new scratch vectors and a new matrix; evaluated once on the angles of
\* the model
Frame(latitude, longitude) ==
  computeCoordinateFrame([up |-> Vec3Create, east |-> Vec3Create, north |-> Vec3Create],
                         latitude, longitude, MatrixCreate).localToWorld

FrameTable == {<<k, Frame(k[1], k[2])>> : k \in Latitudes \X Longitudes}

\* whether the 3x3 block of matrix is the one of the frame for the angles
BlockIsFrame(matrix, latitude, longitude) ==
  \A r \in 0..2 :
    Row(matrix, r) = Row(Lookup(FrameTable, <<latitude, longitude>>,
                                Frame(latitude, longitude)), r)

\* C12: the matrix computeLocalToWorldTransformFromLatLongHeight returns,
\* given none or one that held anything, has the position
\* convertLatLongHeightToXYZ computes as its translation row, the rows of
\* computeCoordinateFrame for the latitude and longitude as its 3x3 block,
\* and (0, 0, 0, 1) as its fourth column.
C12_TransformFromLatLongHeight ==
  call.op = "computeLocalToWorldTransformFromLatLongHeight" =>
    /\ SubSeq(call.out.ret, 13, 15) =
         Converted("convertLatLongHeightToXYZ", models[call.self], call.args)
    /\ BlockIsFrame(call.out.ret, call.args[1], call.args[2])
    /\ <<call.out.ret[4], call.out.ret[8], call.out.ret[12], call.out.ret[16]>> =
         <<Zero, Zero, Zero, Num(1)>>
    /\ Len(call.out.ret) = 16

\* C12: the transform into a matrix that held other values, for a position
\* with three coordinates that are not 0
C12_IntoUsedMatrix ==
  /\ call.op = "computeLocalToWorldTransformFromLatLongHeight"
  /\ call.given \notin {Undefined, MatrixCreate}
  /\ \A i \in 13..15 : call.out.ret[i] # Zero

\* C13: computeLocalToWorldTransformFromXYZ(X, Y, Z) returns a matrix it
\* allocated, with (X, Y, Z) as its translation row and, as its 3x3 block,
\* the frame for the latitude and longitude convertXYZToLatLongHeight
\* computes for (X, Y, Z).
C13_TransformFromXYZ ==
  call.op = "computeLocalToWorldTransformFromXYZ" =>
    /\ ~call.out.same
    /\ call.out.created >= 1
    /\ Len(call.out.ret) = 16
    /\ SubSeq(call.out.ret, 13, 15) = call.args
    /\ LET lla == Converted("convertXYZToLatLongHeight", models[call.self], call.args)
       IN BlockIsFrame(call.out.ret, lla[1], lla[2])

\* C13: the transform at a point that its latitude, longitude and height do
\* not convert back to
C13_PointNotRecovered ==
  /\ call.op = "computeLocalToWorldTransformFromXYZ"
  /\ call.args = <<Zero, Zero, Num(1)>>
  /\ LET lla == Converted("convertXYZToLatLongHeight", models[call.self], call.args)
     IN LatLongHeightToXYZ(models[call.self], lla[1], lla[2], lla[3]) # call.args

\* C14: in every reachable state the third component of the scratch vector
\* east is 0, and the rows a call of computeCoordinateFrame has written are
\* those of the frame for its latitude and longitude alone, whatever calls
\* came before on this or another model.
C14_FrameOfArgumentsOnly ==
  /\ scratch.east[3] = Zero
  /\ call.op = "computeCoordinateFrame" =>
       BlockIsFrame(call.out.ret, call.args[1], call.args[2])

\* C14: a frame computed right after a frame for another latitude and
\* longitude on the other model
C14_FrameAfterFrame ==
  /\ call.op = "computeCoordinateFrame"
  /\ call.prior[1] = "computeCoordinateFrame"
  /\ call.prior[2] # call.self
  /\ Sin(call.prior[3][1]) # Zero
  /\ call.prior[3][1] # call.args[1]
  /\ call.prior[3][2] # call.args[2]

\* C15: a call of computeLocalUpVector or of
\* computeLocalToWorldTransformFromXYZ gives exactly one warning, the
\* deprecation warning of convertXYZToLatLongHeight; a call of
\* computeLocalToWorldTransformFromLatLongHeight with an output parameter
\* gives none.
C15_Warnings ==
  /\ call.op \in {"computeLocalUpVector", "computeLocalToWorldTransformFromXYZ"} =>
       call.out.warnings =
         <<"deprecated, use this signature convertXYZToLatLongHeight( X,  Y,  Z , result)">>
  /\ (call.op = "computeLocalToWorldTransformFromLatLongHeight" /\ call.given # Undefined) =>
       call.out.warnings = << >>

\* C15: computeLocalUpVector called right after
\* computeLocalToWorldTransformFromXYZ on the same model
C15_UpVectorAfterTransform ==
  /\ call.op = "computeLocalUpVector"
  /\ call.prior[1] = "computeLocalToWorldTransformFromXYZ"
  /\ call.prior[2] = call.self
  /\ Len(call.out.warnings) = 1

====
